---- MODULE Spec2Model ----
(***************************************************************************)
(* Model of scripts/local_test/local_data_extraction.py: the concurrent    *)
(* yearly fetch engine (fetch_year under an asyncio.Semaphore, gathered by *)
(* main).                                                                  *)
(*                                                                         *)
(* One action is one run of a coroutine between two suspension points: the *)
(* acquire of the semaphore, the outstanding request (the awaits of        *)
(* session.get and resp.json, pc "calling") and the two asyncio.sleep.     *)
(* The semaphore is a counter: a coroutine at "acquire" enters when the    *)
(* value is positive, in any order.                                        *)
(* Delays are whole seconds; the jitter random.uniform(0.0, 1.0) is drawn  *)
(* as j / JitterDen.                                                       *)
(***************************************************************************)
EXTENDS Integers, Sequences, FiniteSets, TLC

\* ------------------------------------------------------------------ bounds

\* A lone unit is given up to MaxRetries attempts.
MaxRetries == 5
\* The script is run up to MaxRuns times over the same output directory.
MaxRuns == 2
\* Jitter draws are j / JitterDen.
JitterDen == 4
\* The backoff runs configure an initial delay of up to MaxInitialDelay
\* seconds.
MaxInitialDelay == 64

\* --------------------------------------------------------------- constants

\* The default of APIConfig.initial_delay, in seconds.
InitialDelay == 1
\* The cap of increase_delay, in seconds.
DelayCap == 60

\* ------------------------------------------------------------ small helpers

Min(a, b) == IF a <= b THEN a ELSE b

Range(s) == {s[i] : i \in 1..Len(s)}

\* APIConfig: the fields fetch_year and main read.  The configurations that
\* are run: one unit with every retry budget, one unit under a gate wider than
\* the worklist, two units sharing one permit, three units sharing two.
Configs ==
    [years_to_fetch : {<<2000>>}, max_concurrent : {1},
     max_retries : 1..MaxRetries, initial_delay : {InitialDelay}]
    \cup
    [years_to_fetch : {<<2000>>}, max_concurrent : {2},
     max_retries : {1}, initial_delay : {InitialDelay}]
    \cup
    [years_to_fetch : {<<2000, 2001>>}, max_concurrent : {1},
     max_retries : {2}, initial_delay : {InitialDelay}]
    \cup
    [years_to_fetch : {<<2000, 2001, 2002>>}, max_concurrent : {2},
     max_retries : {1}, initial_delay : {InitialDelay}]

\* The configurations of the backoff runs: one unit with the largest retry
\* budget and every initial delay, below and above the cap.
BackoffConfigs ==
    [years_to_fetch : {<<2000>>}, max_concurrent : {1},
     max_retries : {MaxRetries}, initial_delay : 1..MaxInitialDelay]

\* What one request can come back with: a transport failure (ClientError or
\* TimeoutError raised by session.get), or a response with a status; the
\* body of a response that is ok is either JSON, not JSON (JSONDecodeError),
\* of a non-JSON content type (aiohttp's ContentTypeError, a
\* ClientResponseError), or not decodable text (UnicodeDecodeError).
Statuses == {200, 401, 404, 429, 503}

Bodies == {"json", "badjson", "ctype", "unicode"}

TransportError == [err |-> TRUE, status |-> 0, body |-> "none"]

\* resp.ok of aiohttp: the status is below 400.
RespOk(status) == status < 400

Responses ==
    {TransportError}
    \cup {[err |-> FALSE, status |-> s, body |-> "none"] :
            s \in {t \in Statuses : ~RespOk(t)}}
    \cup {[err |-> FALSE, status |-> s, body |-> b] :
            s \in {t \in Statuses : RespOk(t)}, b \in Bodies}

\* What open(filepath, "w") and json.dump can do: succeed, fail at open (no
\* file), or fail in the middle of the dump (a truncated file).
WriteOutcomes == {"ok", "open_fails", "dump_fails"}

\* The draws of random.uniform(0.0, 1.0), as numerators over JitterDen.
Jitters == {0, JitterDen \div 2, JitterDen - 1}

\* ---------------------------------------------------------------- the state

VARIABLES
    config,      \* the APIConfig of this run
    run,         \* how many times the script has been started
    sink,        \* raw_data_dir: year -> "absent" | "complete" | "partial"
    sink0,       \* the sink as it was when this run started
    semaphore,   \* the value of asyncio.Semaphore(max_concurrent)
    pc,          \* fetch_year's position, per year
    attempt,     \* fetch_year's loop variable, per year
    delay,       \* fetch_year's delay, per year
    permit,      \* whether the year's coroutine is inside "async with semaphore"
    result,      \* what fetch_year returned (or raised), per year
    main_pc,     \* main's position: "gather" | "done" | "interrupted"
    failures,    \* main's failures
    successes,   \* main's successes
    total_years, \* main's total_years
    exit_status, \* <<>> while the script runs, then <<its exit status>>
    outcome,     \* instrumentation: the return site fetch_year left by
    hist,        \* instrumentation: the responses the year received, in order
    calls,       \* instrumentation: session.get calls issued
    acquires,    \* instrumentation: permits acquired
    sleeps,      \* instrumentation: backoff sleeps started
    pacings,     \* instrumentation: pacing sleeps started
    writes       \* instrumentation: save_local calls

prog == <<config, run, sink, sink0, semaphore, pc, attempt, delay, permit,
          result, main_pc, failures, successes, total_years, exit_status>>

instr == <<outcome, hist, calls, acquires, sleeps, pacings, writes>>

vars == <<prog, instr>>

Units == Range(config.years_to_fetch)

\* ----------------------------------------------------------- pure functions

\* (mutant) the delay is doubled and jittered but not capped.
increase_delay_uncapped(d, j) == (d * 2 * j) \div JitterDen

\* increase_delay: min(delay * 2 * jitter, 60.0), the jitter being j / JitterDen.
increase_delay(d, j) == Min((d * 2 * j) \div JitterDen, DelayCap)

\* (mutant) every status from 400 up is retried.
RetryableFrom400(status) == 400 <= status /\ status <= 599

\* The test of line 94: rate limiting and server errors are retried.
Retryable(status) == status = 429 \/ (500 <= status /\ status <= 599)

\* The test of line 103: the remaining client errors.
ClientError(status) == 400 <= status /\ status < 500

\* The values fetch_year hands to gather.
Pending == [type |-> "pending", text |-> "", status |-> 0]

ReturnNone == [type |-> "NoneType", text |-> "", status |-> 0]

PermanentError(status) ==
    [type |-> "str", text |-> "Permanent HTTP Error", status |-> status]

MaxRetriesExceeded ==
    [type |-> "str", text |-> "Max retries exceeded", status |-> 0]

Raised == [type |-> "Exception", text |-> "UnicodeDecodeError", status |-> 0]

\* (mutant) the body is taken as it comes, decodable or not.
JsonDecodesAnything(body) == TRUE

\* resp.json() returns the decoded data.
JsonDecodes(body) == body = "json"

\* save_local: the file after the write.
save_local(w) ==
    CASE w = "ok" -> "complete"
      [] w = "open_fails" -> "absent"
      [] w = "dump_fails" -> "partial"

\* (mutant) the check looks at a path that is never written.
ExistsElsewhere(y) == FALSE

\* filepath.exists()
Exists(y) == sink[y] # "absent"

\* ------------------------------------------------------------------- Init

\* asyncio.Semaphore(config.max_concurrent)
NewSemaphore(c) == c.max_concurrent

\* One value per year of the worklist.
PerYear(c, v) == [y \in Range(c.years_to_fetch) |-> v]

\* main up to the gather: the semaphore is created with max_concurrent
\* permits, failures is 0, one coroutine per year is created.  The first run
\* starts on an empty output directory.
Boot ==
    /\ run = 1
    /\ sink = PerYear(config, "absent")
    /\ sink0 = sink
    /\ semaphore = NewSemaphore(config)
    /\ main_pc = "gather"
    /\ failures = 0
    /\ successes = 0
    /\ total_years = Len(config.years_to_fetch)
    /\ exit_status = <<>>
    /\ pc = PerYear(config, "start")
    /\ attempt = PerYear(config, 0)
    /\ delay = PerYear(config, 0)
    /\ permit = PerYear(config, FALSE)
    /\ result = PerYear(config, Pending)
    /\ outcome = PerYear(config, "none")
    /\ hist = PerYear(config, <<>>)
    /\ calls = PerYear(config, 0)
    /\ acquires = PerYear(config, 0)
    /\ sleeps = PerYear(config, 0)
    /\ pacings = PerYear(config, 0)
    /\ writes = PerYear(config, 0)

Init == config \in Configs /\ Boot

\* ------------------------------------------------------------- fetch_year

\* (mutant) a way out of the semaphore that does not give the permit back.
ReleaseForgets(y) ==
    /\ permit' = [permit EXCEPT ![y] = FALSE]
    /\ UNCHANGED semaphore

\* (mutant) the semaphore lets a coroutine in at value 0 too.
CanAcquireAtZero(value) == value >= 0

\* The semaphore lets a coroutine in while its value is positive.
CanAcquire(value) == value > 0

\* (mutant) range(1, config.max_retries + 2): one attempt too many.
MoreAttemptsOffByOne(a, max_retries) == a < max_retries + 1

\* for attempt in range(1, config.max_retries + 1): is there an attempt
\* after attempt a?
MoreAttempts(a, max_retries) == a < max_retries

\* The end of one pass of the loop body for year y: the next attempt, or the
\* return after the loop (lines 131-132).
EndOfAttempt(y) ==
    IF MoreAttempts(attempt[y], config.max_retries)
    THEN /\ attempt' = [attempt EXCEPT ![y] = @ + 1]
         /\ pc' = [pc EXCEPT ![y] = "acquire"]
         /\ UNCHANGED <<result, outcome>>
    ELSE /\ pc' = [pc EXCEPT ![y] = "done"]
         /\ result' = [result EXCEPT ![y] = MaxRetriesExceeded]
         /\ outcome' = [outcome EXCEPT ![y] = "ExhaustedRetries"]
         /\ UNCHANGED attempt

\* Lines 72-82: the existence check, then the first attempt.
Start(y) ==
    /\ pc[y] = "start"
    /\ IF Exists(y)
       THEN /\ pc' = [pc EXCEPT ![y] = "done"]
            /\ result' = [result EXCEPT ![y] = ReturnNone]
            /\ outcome' = [outcome EXCEPT ![y] = "Skipped"]
            /\ UNCHANGED <<attempt, delay>>
       ELSE /\ delay' = [delay EXCEPT ![y] = config.initial_delay]
            /\ attempt' = [attempt EXCEPT ![y] = 1]
            /\ pc' = [pc EXCEPT ![y] = "acquire"]
            /\ UNCHANGED <<result, outcome>>
    /\ UNCHANGED <<config, run, sink, sink0, semaphore, permit, main_pc,
                   failures, successes, total_years, exit_status>>
    /\ UNCHANGED <<hist, calls, acquires, sleeps, pacings, writes>>

\* Lines 84-91: enter "async with semaphore" and issue session.get.
Acquire(y) ==
    /\ pc[y] = "acquire"
    /\ CanAcquire(semaphore)
    /\ semaphore' = semaphore - 1
    /\ permit' = [permit EXCEPT ![y] = TRUE]
    /\ pc' = [pc EXCEPT ![y] = "calling"]
    /\ acquires' = [acquires EXCEPT ![y] = @ + 1]
    /\ calls' = [calls EXCEPT ![y] = @ + 1]
    /\ UNCHANGED <<config, run, sink, sink0, attempt, delay, result,
                   main_pc, failures, successes, total_years, exit_status>>
    /\ UNCHANGED <<outcome, hist, sleeps, pacings, writes>>

\* Leaving "async with semaphore", by its end or by an exception.
Release(y) ==
    /\ semaphore' = semaphore + 1
    /\ permit' = [permit EXCEPT ![y] = FALSE]

\* Lines 98 and 127: await asyncio.sleep(delay).
BeginBackoff(y) ==
    /\ pc' = [pc EXCEPT ![y] = "backoff"]
    /\ sleeps' = [sleeps EXCEPT ![y] = @ + 1]
    /\ UNCHANGED <<attempt, result, outcome, sink, pacings, writes>>

\* Lines 117-120: return the permanent error.
ReturnPermanent(y, status) ==
    /\ pc' = [pc EXCEPT ![y] = "done"]
    /\ result' = [result EXCEPT ![y] = PermanentError(status)]
    /\ outcome' = [outcome EXCEPT ![y] = "PermanentFailure"]
    /\ UNCHANGED <<attempt, sink, sleeps, pacings, writes>>

\* Lines 87-128: the request of year y comes back as r; w is what the write
\* does if the code gets to it.
Respond(y, r, w) ==
    /\ pc[y] = "calling"
    /\ hist' = [hist EXCEPT ![y] = Append(@, r)]
    /\ IF r.err
       THEN \* line 122: the exception leaves the semaphore, then the sleep
            /\ Release(y)
            /\ BeginBackoff(y)
       ELSE IF Retryable(r.status)
       THEN \* lines 94-98: the sleep is inside "async with semaphore"
            /\ BeginBackoff(y)
            /\ UNCHANGED <<semaphore, permit>>
       ELSE IF ClientError(r.status)
       THEN \* line 104: raise_for_status, caught at line 117
            /\ Release(y)
            /\ ReturnPermanent(y, r.status)
       ELSE IF RespOk(r.status)
       THEN CASE JsonDecodes(r.body) ->
                   \* lines 108-114: save, then the pacing sleep
                   /\ sink' = [sink EXCEPT ![y] = save_local(w)]
                   /\ writes' = [writes EXCEPT ![y] = @ + 1]
                   /\ pacings' = [pacings EXCEPT ![y] = @ + 1]
                   /\ pc' = [pc EXCEPT ![y] = "pacing"]
                   /\ UNCHANGED <<semaphore, permit, attempt, result,
                                  outcome, sleeps>>
              [] r.body = "badjson" ->
                   \* JSONDecodeError, caught at line 122
                   /\ Release(y)
                   /\ BeginBackoff(y)
              [] r.body = "ctype" ->
                   \* ContentTypeError is a ClientResponseError: line 117
                   /\ Release(y)
                   /\ ReturnPermanent(y, r.status)
              [] OTHER ->
                   \* UnicodeDecodeError: no handler, fetch_year raises
                   /\ Release(y)
                   /\ pc' = [pc EXCEPT ![y] = "done"]
                   /\ result' = [result EXCEPT ![y] = Raised]
                   /\ outcome' = [outcome EXCEPT ![y] = "Exception"]
                   /\ UNCHANGED <<attempt, sink, sleeps, pacings, writes>>
       ELSE \* no branch taken: the loop goes on without a sleep
            /\ Release(y)
            /\ EndOfAttempt(y)
            /\ UNCHANGED <<sink, sleeps, pacings, writes>>
    /\ UNCHANGED <<config, run, sink0, delay, main_pc, failures, successes,
                   total_years, exit_status>>
    /\ UNCHANGED <<calls, acquires>>

\* Lines 98-100 and 127-128: the sleep ends, the delay is advanced with the
\* jitter j / JitterDen, and the loop goes on; after the sleep of line 98,
\* "continue" leaves the semaphore.
EndBackoff(y, j) ==
    /\ pc[y] = "backoff"
    /\ delay' = [delay EXCEPT ![y] = increase_delay(@, j)]
    /\ IF permit[y] THEN Release(y) ELSE UNCHANGED <<semaphore, permit>>
    /\ EndOfAttempt(y)
    /\ UNCHANGED <<config, run, sink, sink0, main_pc, failures, successes,
                   total_years, exit_status>>
    /\ UNCHANGED <<hist, calls, acquires, sleeps, pacings, writes>>

\* Lines 114-115: the pacing sleep ends inside the semaphore; return None.
EndPacing(y) ==
    /\ pc[y] = "pacing"
    /\ Release(y)
    /\ pc' = [pc EXCEPT ![y] = "done"]
    /\ result' = [result EXCEPT ![y] = ReturnNone]
    /\ outcome' = [outcome EXCEPT ![y] = "Success"]
    /\ UNCHANGED <<config, run, sink, sink0, attempt, delay, main_pc,
                   failures, successes, total_years, exit_status>>
    /\ UNCHANGED <<hist, calls, acquires, sleeps, pacings, writes>>

\* ------------------------------------------------------------------- main

\* (mutant) gather without return_exceptions: the first exception ends it.
GatherRaises(res) ==
    \/ \A y \in DOMAIN res : res[y].type # "pending"
    \/ \E y \in DOMAIN res : res[y].type = "Exception"

\* asyncio.gather(*tasks, return_exceptions=True) returns once every
\* coroutine has returned or raised.
GatherReturns(res) == \A y \in DOMAIN res : res[y].type # "pending"

\* (mutant) the loop without its elif branch: only strings are counted.
RECURSIVE CountStrings(_)
CountStrings(results) ==
    IF results = <<>>
    THEN 0
    ELSE IF Head(results).type = "str"
         THEN CountStrings(Tail(results)) + 1
         ELSE CountStrings(Tail(results))

\* Lines 169-175: the loop over the results, in worklist order.
RECURSIVE CountFailures(_)
CountFailures(results) ==
    IF results = <<>>
    THEN 0
    ELSE LET r == Head(results)
             rest == CountFailures(Tail(results))
         IN  IF r.type = "str" THEN rest + 1
             ELSE IF r.type = "Exception" THEN rest + 1
             ELSE rest

\* Lines 184-194: the script never calls sys.exit: main returns after
\* logging, a KeyboardInterrupt is caught and logged, and the interpreter
\* ends with status 0 whatever failures is.
ExitStatus(f) == 0

\* Lines 179-185: the lines of the final summary.
SummaryLog(total, ok, failed) ==
    <<[line |-> "Total years targeted", n |-> total],
      [line |-> "Successful fetches (or skipped)", n |-> ok],
      [line |-> "Failed fetches", n |-> failed]>>
    \o (IF failed > 0
        THEN <<[line |-> "Pipeline finished with errors", n |-> failed]>>
        ELSE <<>>)

\* Lines 167-194: the gather returns, the failures are counted, the summary
\* is logged, the script ends.
Gather ==
    /\ main_pc = "gather"
    /\ GatherReturns(result)
    /\ failures' = CountFailures([i \in 1..Len(config.years_to_fetch) |->
                                     result[config.years_to_fetch[i]]])
    /\ successes' = total_years - failures'
    /\ main_pc' = "done"
    /\ exit_status' = <<ExitStatus(failures')>>
    /\ UNCHANGED <<config, run, sink, sink0, semaphore, pc, attempt, delay,
                   permit, result, total_years>>
    /\ UNCHANGED instr

\* Lines 188-192: the process is interrupted.  asyncio.run cancels main,
\* the gather and every coroutine that has not ended; each leaves its
\* "async with semaphore" with CancelledError, which no handler of
\* fetch_year catches; __main__ catches the KeyboardInterrupt and logs it.
Unwind ==
    /\ pc' = [y \in Units |-> IF pc[y] = "done" THEN "done" ELSE "cancelled"]
    /\ permit' = PerYear(config, FALSE)
    /\ semaphore' = semaphore + Cardinality({y \in Units : permit[y]})
    /\ main_pc' = "interrupted"
    /\ exit_status' = <<ExitStatus(failures)>>

\* The interrupt arrives while the coroutines are suspended.
Interrupt ==
    /\ main_pc = "gather"
    /\ Unwind
    /\ UNCHANGED <<config, run, sink, sink0, attempt, delay, result,
                   failures, successes, total_years>>
    /\ UNCHANGED instr

\* Lines 53-55 and 108-110: the interrupt arrives while save_local is
\* writing the decoded body of r: the file was opened for writing and is
\* left with what json.dump had written so far.
InterruptedWrite(y, r) ==
    /\ main_pc = "gather"
    /\ pc[y] = "calling"
    /\ ~r.err /\ ~Retryable(r.status) /\ ~ClientError(r.status)
    /\ RespOk(r.status) /\ JsonDecodes(r.body)
    /\ hist' = [hist EXCEPT ![y] = Append(@, r)]
    /\ writes' = [writes EXCEPT ![y] = @ + 1]
    /\ sink' = [sink EXCEPT ![y] = "partial"]
    /\ Unwind
    /\ UNCHANGED <<config, run, sink0, attempt, delay, result,
                   failures, successes, total_years>>
    /\ UNCHANGED <<outcome, calls, acquires, sleeps, pacings>>

\* Lines 188-190: the script is started again with the same configuration
\* over the output directory the previous run left.
Rerun ==
    /\ main_pc \in {"done", "interrupted"}
    /\ run < MaxRuns
    /\ run' = run + 1
    /\ sink0' = sink
    /\ semaphore' = NewSemaphore(config)
    /\ main_pc' = "gather"
    /\ failures' = 0
    /\ successes' = 0
    /\ total_years' = Len(config.years_to_fetch)
    /\ exit_status' = <<>>
    /\ pc' = PerYear(config, "start")
    /\ attempt' = PerYear(config, 0)
    /\ delay' = PerYear(config, 0)
    /\ permit' = PerYear(config, FALSE)
    /\ result' = PerYear(config, Pending)
    /\ outcome' = PerYear(config, "none")
    /\ hist' = PerYear(config, <<>>)
    /\ calls' = PerYear(config, 0)
    /\ acquires' = PerYear(config, 0)
    /\ sleeps' = PerYear(config, 0)
    /\ pacings' = PerYear(config, 0)
    /\ writes' = PerYear(config, 0)
    /\ UNCHANGED <<config, sink>>

\* The steps of one run of the script.
RunNext ==
    \/ \E y \in Units : Start(y)
    \/ \E y \in Units : Acquire(y)
    \/ \E y \in Units : \E r \in Responses : \E w \in WriteOutcomes :
          Respond(y, r, w)
    \/ \E y \in Units : \E j \in Jitters : EndBackoff(y, j)
    \/ \E y \in Units : EndPacing(y)
    \/ Gather
    \/ Interrupt
    \/ \E y \in Units : \E r \in Responses : InterruptedWrite(y, r)

Next == RunNext \/ Rerun

Spec == Init /\ [][Next]_vars

\* Every year a worklist of Configs names.
AllYears == {2000, 2001, 2002}

\* The next step of the coroutine of year y, whichever it is.
UnitStep(y) ==
    \/ Start(y)
    \/ Acquire(y)
    \/ \E r \in Responses : \E w \in WriteOutcomes : Respond(y, r, w)
    \/ \E j \in Jitters : EndBackoff(y, j)
    \/ EndPacing(y)

\* The event loop runs every coroutine that is ready: a coroutine that can
\* start or enter the semaphore does, a sleep ends, a request comes back
\* (with a response, or with the timeout of line 85), and main goes on once
\* the gather can return.  Nothing forces an interrupt.  LiveSpec follows
\* one run of the script to its end.
Fairness ==
    /\ \A y \in AllYears : WF_vars(y \in Units /\ UnitStep(y))
    /\ WF_vars(Gather)

LiveSpec == Init /\ [][RunNext]_vars /\ Fairness

\* The backoff runs: one unit whose requests keep failing (a 503, or a
\* transport error), under every configured initial delay.
InitBackoff == config \in BackoffConfigs /\ Boot

BackoffResponses ==
    {TransportError, [err |-> FALSE, status |-> 503, body |-> "none"]}

NextBackoff ==
    \/ \E y \in Units : Start(y)
    \/ \E y \in Units : Acquire(y)
    \/ \E y \in Units : \E r \in BackoffResponses : Respond(y, r, "ok")
    \/ \E y \in Units : \E j \in Jitters : EndBackoff(y, j)
    \/ Gather

SpecBackoff == InitBackoff /\ [][NextBackoff]_vars

\* ------------------------------------------------------------ type invariant

TypeOK ==
    /\ config \in Configs \cup BackoffConfigs
    /\ run \in 1..MaxRuns
    /\ semaphore \in 0..config.max_concurrent
    /\ \A y \in Units :
          /\ sink[y] \in {"absent", "complete", "partial"}
          /\ pc[y] \in {"start", "acquire", "calling", "backoff", "pacing",
                        "done", "cancelled"}
          /\ attempt[y] \in 0..config.max_retries
          /\ delay[y] \in 0..MaxInitialDelay
          /\ permit[y] \in BOOLEAN
    /\ main_pc \in {"gather", "done", "interrupted"}
    /\ exit_status \in {<<>>, <<0>>, <<1>>}
    /\ main_pc = "gather" <=> exit_status = <<>>

\* ------------------------------------------------- vocabulary of the claims

NumUnits == Len(config.years_to_fetch)

InFlight == {y \in Units : pc[y] = "calling"}

Received(y) == Len(hist[y])

IsStatus(r, status) == ~r.err /\ r.status = status

IsJson(r) == ~r.err /\ r.status \in 200..299 /\ r.body = "json"

FailedOutcomes == {"PermanentFailure", "ExhaustedRetries", "Exception"}

SucceededOutcomes == {"Success", "Skipped"}

AllReceived(y, status) ==
    /\ hist[y] # <<>>
    /\ \A i \in 1..Received(y) : IsStatus(hist[y][i], status)

\* ----------------------------------------------------------------- claims

\* C1: with a gate of capacity k below the number of units, at most k
\* network calls are outstanding in any reachable state.
C1_AtMostKInFlight ==
    config.max_concurrent < NumUnits
        => Cardinality(InFlight) <= config.max_concurrent

\* C1 witness: three units, capacity two, two calls outstanding and the
\* third unit kept waiting at the gate.
C1_GateFull ==
    /\ NumUnits = 3
    /\ config.max_concurrent = 2
    /\ Cardinality(InFlight) = 2
    /\ \E y \in Units : pc[y] = "acquire" /\ attempt[y] = 1

\* C2: no unit is in its backoff sleep while it holds a gate permit.
C2_BackoffOutsidePermit ==
    \A y \in Units : pc[y] = "backoff" => ~permit[y]

\* C3: a unit whose artifact exists when the run starts ends Skipped with
\* no network call, no permit, no sleep and no write.
C3_ExistingIsSkipped ==
    \A y \in Units :
        (sink0[y] # "absent" /\ pc[y] \notin {"start", "cancelled"}) =>
            /\ pc[y] = "done"
            /\ outcome[y] = "Skipped"
            /\ result[y] = ReturnNone
            /\ calls[y] = 0
            /\ acquires[y] = 0
            /\ ~permit[y]
            /\ sleeps[y] = 0
            /\ pacings[y] = 0
            /\ writes[y] = 0
            /\ sink[y] = sink0[y]

\* C3 witness: a unit found its artifact and the run ended with it counted
\* as a success.
C3_SkippedUnit ==
    /\ main_pc = "done"
    /\ \E y \in Units : sink0[y] = "complete" /\ outcome[y] = "Skipped"
    /\ successes >= 1

\* C4: a 4xx status other than 429 ends the unit at once as a permanent
\* failure carrying that status: it is the last response the unit receives,
\* no call and no sleep follows it, nothing is written; a 404 on the first
\* attempt means one call and no sleep.
C4_PermanentStopsAtOnce ==
    \A y \in Units : \A i \in 1..Received(y) :
        LET r == hist[y][i]
        IN  (~r.err /\ r.status \in 400..499 /\ r.status # 429) =>
                /\ i = Received(y)
                /\ pc[y] = "done"
                /\ outcome[y] = "PermanentFailure"
                /\ result[y].type = "str"
                /\ result[y].text = "Permanent HTTP Error"
                /\ result[y].status = r.status
                /\ calls[y] = i
                /\ sleeps[y] = i - 1
                /\ pacings[y] = 0
                /\ writes[y] = 0
                /\ sink[y] = "absent"
                /\ ~permit[y]

\* C4 witness: a 404 on the first attempt ended the unit.
C4_NotFoundAtFirst ==
    \E y \in Units :
        /\ Received(y) = 1
        /\ IsStatus(hist[y][1], 404)
        /\ pc[y] = "done"
        /\ calls[y] = 1
        /\ sleeps[y] = 0

\* C5: a unit that got 503 on attempts 1..n-1 and a decodable 200 on attempt
\* n ends in Success with its artifact persisted by one write, n calls and
\* n-1 backoff sleeps.
C5_RetriesThenSuccess ==
    \A y \in Units :
        LET n == Received(y)
        IN  (/\ pc[y] = "done"
             /\ n >= 1
             /\ \A i \in 1..(n - 1) : IsStatus(hist[y][i], 503)
             /\ IsJson(hist[y][n])) =>
                /\ outcome[y] = "Success"
                /\ result[y] = ReturnNone
                /\ sink[y] = "complete"
                /\ writes[y] = 1
                /\ calls[y] = n
                /\ sleeps[y] = n - 1

\* C6: a unit that got 429 on every attempt ends in ExhaustedRetries after
\* exactly max_retries calls and its artifact is never written.
C6_RateLimitedExhausts ==
    \A y \in Units :
        AllReceived(y, 429) =>
            /\ writes[y] = 0
            /\ sink[y] = "absent"
            /\ calls[y] <= config.max_retries
            /\ pc[y] = "done" =>
                  /\ outcome[y] = "ExhaustedRetries"
                  /\ result[y] = MaxRetriesExceeded
                  /\ calls[y] = config.max_retries
                  /\ Received(y) = config.max_retries

\* C6 witness: a unit ended after 429 on each of three or more attempts.
C6_ExhaustedUnit ==
    \E y \in Units :
        /\ config.max_retries >= 3
        /\ AllReceived(y, 429)
        /\ pc[y] = "done"

\* C7: in the summary succeeded + failed = total_units, failed being the
\* units that ended in a failure or an exception and succeeded those that
\* ended in Success or Skipped.
C7_SummaryCounts ==
    main_pc = "done" =>
        /\ successes + failures = total_years
        /\ total_years = NumUnits
        /\ failures =
              Cardinality({y \in Units : outcome[y] \in FailedOutcomes})
        /\ successes =
              Cardinality({y \in Units : outcome[y] \in SucceededOutcomes})

\* C7 witness: a summary over a permanent failure, an exception and a
\* success.
C7_MixedSummary ==
    /\ main_pc = "done"
    /\ \E y \in Units : outcome[y] = "Exception"
    /\ \E y \in Units : outcome[y] = "PermanentFailure"
    /\ \E y \in Units : outcome[y] = "Success"

\* C8: a second run over a sink that holds every unit's artifact skips
\* every unit, issues no network call, writes nothing and reports no
\* failure.
C8_SecondRunSkipsAll ==
    (run >= 2 /\ \A y \in Units : sink0[y] # "absent") =>
        /\ sink = sink0
        /\ \A y \in Units :
              /\ calls[y] = 0
              /\ writes[y] = 0
              /\ pc[y] \notin {"start", "cancelled"} => outcome[y] = "Skipped"
        /\ main_pc = "done" =>
              /\ failures = 0
              /\ successes = NumUnits
              /\ \A y \in Units : outcome[y] = "Skipped"

\* C8 witness: the second run over a fully populated sink of three units
\* has ended.
C8_SecondRunDone ==
    /\ run = 2
    /\ NumUnits = 3
    /\ \A y \in Units : sink0[y] = "complete"
    /\ main_pc = "done"

\* The outcome a unit's own inputs call for: the sink at the start of the
\* run and the responses the unit itself received.
OwnOutcome(y) ==
    IF sink0[y] # "absent"
    THEN outcome[y] = "Skipped" /\ hist[y] = <<>>
    ELSE /\ hist[y] # <<>>
         /\ LET r == hist[y][Received(y)]
            IN  CASE r.err -> outcome[y] = "ExhaustedRetries"
                  [] ~r.err /\ r.status \in {429} \cup (500..599) ->
                        outcome[y] = "ExhaustedRetries"
                  [] ~r.err /\ r.status \in (400..499) \ {429} ->
                        outcome[y] = "PermanentFailure"
                  [] ~r.err /\ r.status < 400 ->
                        outcome[y] =
                            CASE r.body = "json" -> "Success"
                              [] r.body = "badjson" -> "ExhaustedRetries"
                              [] r.body = "ctype" -> "PermanentFailure"
                              [] r.body = "unicode" -> "Exception"
         /\ outcome[y] = "ExhaustedRetries" =>
               Received(y) = config.max_retries

\* C9: a unit that ends in a failure or an exception ends no other unit,
\* and main computes the summary only once every unit has ended with the
\* outcome its own inputs call for.
C9_Isolation ==
    /\ [](main_pc = "done" =>
             \A y \in Units : pc[y] = "done" /\ OwnOutcome(y))
    /\ [][\A u \in Units :
             (outcome[u] = "none" /\ outcome'[u] \in FailedOutcomes) =>
                 \A v \in Units \ {u} :
                     /\ pc'[v] = pc[v]
                     /\ result'[v] = result[v]
                     /\ outcome'[v] = outcome[v]]_vars

\* C9 witness: one unit has ended in an exception while a sibling's call is
\* still outstanding and main is still waiting.
C9_SiblingStillRuns ==
    /\ main_pc = "gather"
    /\ \E u \in Units : \E v \in Units \ {u} :
          /\ outcome[u] = "Exception"
          /\ pc[v] = "calling"

\* C10: a unit that ended in Success after a fetch has its artifact in the
\* sink, written by exactly one write.
C10_SuccessIsPersisted ==
    \A y \in Units :
        outcome[y] = "Success" => sink[y] = "complete" /\ writes[y] = 1

\* C11: after an interrupt, at whatever point of the run it arrived, no
\* path written in the run holds a truncated payload, and a later run never
\* skips a unit whose artifact is incomplete.
C11_NoTruncatedArtifact ==
    /\ main_pc = "interrupted" =>
          \A y \in Units : sink0[y] = "absent" => sink[y] # "partial"
    /\ \A y \in Units : outcome[y] = "Skipped" => sink[y] = "complete"

\* C12: the script ends with a nonzero exit status exactly when at least
\* one unit failed, and it ends only after every unit has.
C12_ExitStatusTellsFailure ==
    main_pc = "done" =>
        /\ \A y \in Units : pc[y] = "done"
        /\ exit_status # <<>>
        /\ exit_status[1] # 0 <=> failures > 0

\* A decode error: a response with a success status whose body does not
\* decode, in any of its forms.
IsDecodeError(r) == ~r.err /\ r.status \in 200..299 /\ r.body # "json"

\* C13: a decode error on a success-status response is transient in every
\* form: the unit sleeps and retries while attempts remain and ends in
\* ExhaustedRetries only when the budget is spent; it never ends in a
\* permanent failure or an exception for it.
C13_DecodeErrorIsTransient ==
    \A y \in Units :
        (Received(y) >= 1 /\ IsDecodeError(hist[y][Received(y)])) =>
            /\ outcome[y] \in {"none", "ExhaustedRetries"}
            /\ sleeps[y] = Received(y)
            /\ outcome[y] = "ExhaustedRetries" =>
                  Received(y) = config.max_retries

\* How many times the delay of year y has been advanced.
Increases(y) == IF pc[y] = "backoff" THEN sleeps[y] - 1 ELSE sleeps[y]

Max(a, b) == IF a >= b THEN a ELSE b

\* C14: for every delay d > 0 a unit has and every jitter draw,
\* increase_delay(d) is at least 0 and at most the cap 60; a delay that was
\* advanced is within [0, 60], and every delay a unit sleeps for is within
\* [0, max(initial_delay, 60)].
C14_DelayWithinBounds ==
    \A y \in Units :
        /\ delay[y] > 0 =>
              \A j \in 0..(JitterDen - 1) :
                  /\ increase_delay(delay[y], j) >= 0
                  /\ increase_delay(delay[y], j) <= 60
        /\ Increases(y) >= 1 => delay[y] >= 0 /\ delay[y] <= 60
        /\ pc[y] = "backoff" =>
              /\ delay[y] >= 0
              /\ delay[y] <= Max(config.initial_delay, 60)

\* C14 witness: a unit configured below the cap sleeps for exactly the cap,
\* after an advance that the cap cut short.
C14_SleepsAtCap ==
    \E y \in Units :
        /\ config.initial_delay < 60
        /\ pc[y] = "backoff"
        /\ Increases(y) >= 1
        /\ delay[y] = 60

\* C15: increase_delay of a positive delay is strictly positive: a delay
\* that was advanced is never 0.
C15_DelayStaysPositive ==
    \A y \in Units : Increases(y) >= 1 => delay[y] > 0

\* The (year, reason) pairs a summary holds: its lines that name a year.
FailuresListed(log) ==
    {<<log[i].year, log[i].reason>> :
        i \in {k \in DOMAIN log : "year" \in DOMAIN log[k]}}

\* C16: the summary of main lists, for each failed unit, its year and the
\* reason its fetcher returned, and nothing else.
C16_SummaryListsFailures ==
    main_pc = "done" =>
        FailuresListed(SummaryLog(total_years, successes, failures))
            = {<<y, result[y]>> :
                  y \in {u \in Units : outcome[u] \in FailedOutcomes}}

\* C17: a transient failure on the last attempt ends the unit without a
\* backoff sleep: a unit sleeps only while attempts remain, and a unit that
\* exhausts its budget has slept max_retries - 1 times.
C17_NoSleepAfterLastAttempt ==
    \A y \in Units :
        /\ pc[y] = "backoff" => attempt[y] < config.max_retries
        /\ outcome[y] = "ExhaustedRetries" =>
              sleeps[y] = config.max_retries - 1

Holders == {y \in Units : permit[y]}

Ended(y) == pc[y] \in {"done", "cancelled"}

\* Every unit ends and main ends, by the summary or by an interrupt.
Terminates ==
    /\ \A y \in AllYears :
          (y \in Units /\ pc[y] = "start") ~> (y \notin Units \/ Ended(y))
    /\ (main_pc = "gather") ~> (main_pc \in {"done", "interrupted"})

\* C18: every unit issues at most max_retries network calls and ends in
\* exactly one of Skipped, Success, PermanentFailure and ExhaustedRetries.
C18_EndsInOneOutcome ==
    \A y \in Units :
        /\ calls[y] <= config.max_retries
        /\ pc[y] = "done" <=> outcome[y] # "none"
        /\ pc[y] = "done" =>
              outcome[y] \in {"Skipped", "Success", "PermanentFailure",
                              "ExhaustedRetries"}

\* C19: the free permits and the permits held add up to max_concurrent, a
\* unit holds a permit only between its acquire and the end of that attempt
\* and never asks for a second one, every way out of an attempt (an
\* interrupt too) gives the permit back, so that all permits are free once
\* every unit has ended; and no unit waits at the acquire forever.
C19_PermitsConserved ==
    /\ [](/\ semaphore + Cardinality(Holders) = config.max_concurrent
          /\ semaphore >= 0
          /\ \A y \in Units :
                /\ permit[y] => pc[y] \in {"calling", "backoff", "pacing"}
                /\ pc[y] \in {"calling", "pacing"} => permit[y]
                /\ acquires[y] = calls[y]
          /\ (\A y \in Units : Ended(y)) =>
                semaphore = config.max_concurrent)
    /\ \A y \in AllYears :
          (y \in Units /\ pc[y] = "acquire")
              ~> (y \notin Units \/ pc[y] # "acquire")

\* C19 witness: the only permit is held by a unit in its backoff sleep
\* while the other unit waits at the acquire.
C19_WaitsForSleeper ==
    /\ semaphore = 0
    /\ config.max_concurrent = 1
    /\ \E y \in Units : \E z \in Units \ {y} :
          /\ pc[y] = "acquire"
          /\ pc[z] = "backoff" /\ permit[z]

\* C20: an artifact is created only from a successful response of its own
\* unit.  In every state, a path that was absent when the run started
\* exists only if its unit has written it, a unit writes at most once per
\* run and only after a success-status response whose body decoded (the
\* last response it received), and a unit that ends in PermanentFailure or
\* ExhaustedRetries has written nothing and left its path as it was.  In
\* every step, a path changes only by the write of the unit of its own
\* year, and no other path changes with it.
C20_ArtifactOnlyFromSuccess ==
    /\ [](\A y \in Units :
            /\ writes[y] <= 1
            /\ writes[y] = 1 =>
                  /\ Received(y) > 0
                  /\ IsJson(hist[y][Received(y)])
            /\ (sink0[y] = "absent" /\ sink[y] # "absent") => writes[y] = 1
            /\ outcome[y] \in {"PermanentFailure", "ExhaustedRetries"} =>
                  /\ writes[y] = 0
                  /\ sink[y] = sink0[y])
    /\ [][\A y \in Units :
            sink'[y] # sink[y] =>
                /\ pc[y] = "calling"
                /\ writes'[y] = writes[y] + 1
                /\ \A z \in Units \ {y} : sink'[z] = sink[z]]_vars

\* A unit has created its artifact on its second attempt while a sibling
\* has ended in failure without writing anything.
C20_OneWrittenOneFailed ==
    \E y \in Units : \E z \in Units \ {y} :
        /\ sink0[y] = "absent" /\ sink[y] = "complete"
        /\ writes[y] = 1 /\ Received(y) = 2
        /\ outcome[z] \in {"PermanentFailure", "ExhaustedRetries"}
        /\ writes[z] = 0 /\ sink[z] = "absent"

====
